---- MODULE Spec2Model ----
(***************************************************************************)
(* Model of scalyr_agent/builtin_monitors/linux_process_metrics.py: the    *)
(* per-process /proc readers (BaseReader and its subclasses) and the       *)
(* ProcessMonitor that binds them to a matched process id.                 *)
(*                                                                         *)
(* Text (ps output lines, configuration strings) is a sequence of          *)
(* one-character strings.  Python's None is NoPid (0) for a process id,    *)
(* the empty sequence for a configuration string and NoFile for a file.    *)
(* Errno values are the Linux ones: 0 stands for success.                  *)
(***************************************************************************)
EXTENDS Integers, Sequences, FiniteSets, TLC

\* ------------------------------------------------------------------ bounds
\* Number of processes that start while the monitor runs.
MaxSpawns == 2
\* Width of the right-aligned PID column that ps prints.
PidColumn == 3
\* Number of entries of the process tables the resolver is applied to alone.
MaxTable == 3
\* Number of times the resolver is called on one such table.
MaxCalls == 2
\* Number of calls made on a reader that is driven on its own.
MaxReaderCalls == 3
\* Largest tick count handed to the tick conversions.
MaxTicks == 30
\* Number of conversions made by one stat reader.
MaxConversions == 2
\* System uptime, in centiseconds, at which the clock of the uptime
\* specification stops.
MaxUptimeCs == 310
\* Number of samples one stat reader gathers in the uptime specification.
MaxSamples == 2
\* Number of lines the pipe between ps and the monitor holds.
PipeCap == 1
\* Number of lines of the status and io texts handed to the parsers.
MaxLines == 2
\* Number of Apache monitor instances in one agent.
MaxMonitors == 2
\* Number of status fetches the Apache monitors make.
MaxFetches == 2

\* --------------------------------------------------------------- constants
NoPid == 0
EPERM == 1
ENOENT == 2
ESRCH == 3
EAGAIN == 11
EACCES == 13
EMFILE == 24

\* The process ids other processes may take, and the agent's own.
OtherPids == {1, 2}
SelfPid == 3
Pids == OtherPids \cup {SelfPid}

Kinds == <<"stat", "status", "io">>

NoStr == <<>>
DollarDollar == <<"$", "$">>
CmdJava == <<"j", "a">>
CmdJavaArg == <<"j", "a", " ", "x">>
CmdShell == <<"s", "h", "1">>
CmdAgent == <<"a", "g">>
Commands == {CmdJava, CmdShell}
PatternJava == <<"j", "a">>
IdTomcat == "tomcat"
NoTag == <<>>
\* StatReader._boot_time_ms before the first sample (None).
NoBootTime == -1
PsHeader == <<" ", " ", "P", "I", "D", " ", "C", "O", "M", "M", "A", "N", "D", "\n">>

VARIABLES
    commandline_matcher,  \* ProcessMonitor.__commandline_matcher
    target_pid,           \* ProcessMonitor.__target_pid
    monitor_id,           \* ProcessMonitor.__id
    pid,                  \* ProcessMonitor.__pid
    gathers,              \* ProcessMonitor.__gathers
    pc,                   \* position of the monitor: init, idle, run, config_error, stopped
    idx,                  \* index of the next reader gather_sample runs
    raised,               \* the last cycle ended by raising to its caller
    procs,                \* the operating system's process table
    openHandles,          \* the file handles the operating system holds open
    bindSeq,              \* number of bindings constructed so far
    closed,               \* readers on which close() has been called
    permFailed,           \* readers whose open failed with errno 13 or 2
    errorLog,             \* the reader of each error message logged so far, in order
    events,               \* what the current cycle did, in order
    boundInst,            \* the process instance the current binding was made for
    staleBind,            \* the binding whose instance had ended when the cycle began
    psTable,              \* a process table handed to the resolver alone
    psMatcher,            \* the pattern it is searched for
    selResult,            \* what the resolver returned for it
    selCalls,             \* number of times the resolver was called on it
    reader,               \* a reader driven on its own
    readerHandles,        \* the file handles it holds open
    readerOps,            \* the calls made on it so far, in order
    jiffies_per_sec,      \* StatReader._jiffies_per_sec
    jiffies,              \* the tick count last converted
    time_cs,              \* what __calculate_time_cs returned for it
    time_ms,              \* what calculate_time_ms returned for it
    conversions,          \* number of conversions made so far
    wall_cs,              \* time.time(), in centiseconds
    uptime_cs,            \* time since boot, in centiseconds, as /proc/uptime prints it
    starttime,            \* field 19 of the stat line: start of the process, in ticks since boot
    boot_time_ms,         \* StatReader._boot_time_ms
    uptime_reads,         \* number of times /proc/uptime was read
    process_uptime,       \* the app.uptime value last emitted
    uptime_samples,       \* number of samples gathered so far
    ps_out,               \* the lines ps has still to write
    ps_pipe,              \* the lines in the pipe from ps to the monitor
    ps_exited,            \* ps has exited
    sel_pc,               \* position of __select_process: readline, scan, wait, returned
    parse_kind,           \* the reader a text is handed to: status or io
    parse_src,            \* what each line of the text was written from
    parse_text,           \* the lines of the text
    parse_out,            \* the samples gather_sample emitted for it
    parse_raised,         \* gather_sample raised
    parse_done,           \* gather_sample has been called
    httpSourceAddress,    \* apache_monitor.httpSourceAddress, the module's global
    apache_config,        \* the configuration of each Apache monitor instance
    apache_sourceaddress, \* ApacheMonitor.__sourceaddress of each instance
    apache_fetched,       \* the source address of each instance's last fetch
    apache_fetches        \* number of fetches made so far

configVars == <<commandline_matcher, target_pid, monitor_id>>
monitorVars == <<configVars, pid, gathers, pc, idx, raised,
                 procs, openHandles, bindSeq, closed, permFailed, errorLog, events,
                 boundInst, staleBind>>
selVars == <<psTable, psMatcher, selResult, selCalls>>
readerVars == <<reader, readerHandles, readerOps>>
ticksVars == <<jiffies_per_sec, jiffies, time_cs, time_ms, conversions>>
uptimeVars == <<wall_cs, uptime_cs, starttime, boot_time_ms, uptime_reads,
                process_uptime, uptime_samples>>
pipeVars == <<ps_out, ps_pipe, ps_exited, sel_pc>>
parseVars == <<parse_kind, parse_src, parse_text, parse_out, parse_raised, parse_done>>
apacheVars == <<httpSourceAddress, apache_config, apache_sourceaddress, apache_fetched,
                apache_fetches>>
auxVars == <<selVars, readerVars, ticksVars, uptimeVars, pipeVars, parseVars,
             apacheVars>>
vars == <<monitorVars, auxVars>>

\* ------------------------------------------------------------ text helpers
RECURSIVE FindFrom(_, _, _)
FindFrom(s, c, i) ==
    IF i > Len(s) THEN -1
    ELSE IF s[i] = c THEN i - 1
    ELSE FindFrom(s, c, i + 1)

\* str.find of a single character: 0-based index, -1 when absent.
Find(s, c) == FindFrom(s, c, 1)

IsSpace(c) == c \in {" ", "\n", "\t"}

RECURSIVE LStrip(_)
LStrip(s) ==
    IF s = <<>> THEN s
    ELSE IF IsSpace(Head(s)) THEN LStrip(Tail(s))
    ELSE s

RECURSIVE RStrip(_)
RStrip(s) ==
    IF s = <<>> THEN s
    ELSE IF IsSpace(s[Len(s)]) THEN RStrip(SubSeq(s, 1, Len(s) - 1))
    ELSE s

\* str.strip()
Strip(s) == RStrip(LStrip(s))

RECURSIVE WordLen(_)
\* Length of the longest prefix of s made of non-blank characters.
WordLen(s) ==
    IF s = <<>> \/ IsSpace(Head(s)) THEN 0 ELSE 1 + WordLen(Tail(s))

RECURSIVE Split(_)
\* str.split() without arguments: the runs of non-blank characters.
Split(s) ==
    LET t == LStrip(s)
    IN IF t = <<>> THEN <<>>
       ELSE <<SubSeq(t, 1, WordLen(t))>> \o Split(SubSeq(t, WordLen(t) + 1, Len(t)))

IsDigit(c) == c \in {"0", "1", "2", "3", "4", "5", "6", "7", "8", "9"}

\* The regular expression class \w.
IsWordChar(c) ==
    \/ IsDigit(c)
    \/ c = "_"
    \/ c \in {"a", "b", "c", "d", "e", "f", "g", "h", "i", "j", "k", "l", "m",
               "n", "o", "p", "q", "r", "s", "t", "u", "v", "w", "x", "y", "z"}
    \/ c \in {"A", "B", "C", "D", "E", "F", "G", "H", "I", "J", "K", "L", "M",
               "N", "O", "P", "Q", "R", "S", "T", "U", "V", "W", "X", "Y", "Z"}

RECURSIVE WordCharsLen(_)
\* Length of the longest prefix of s that \w+ can take.
WordCharsLen(s) ==
    IF s = <<>> \/ ~IsWordChar(Head(s)) THEN 0 ELSE 1 + WordCharsLen(Tail(s))

RECURSIVE DigitsLen(_)
\* Length of the longest prefix of s that \d+ can take.
DigitsLen(s) ==
    IF s = <<>> \/ ~IsDigit(Head(s)) THEN 0 ELSE 1 + DigitsLen(Tail(s))

DigitVal(c) ==
    CASE c = "0" -> 0 [] c = "1" -> 1 [] c = "2" -> 2 [] c = "3" -> 3
      [] c = "4" -> 4 [] c = "5" -> 5 [] c = "6" -> 6 [] c = "7" -> 7
      [] c = "8" -> 8 [] c = "9" -> 9

DigitChar(d) ==
    CASE d = 0 -> "0" [] d = 1 -> "1" [] d = 2 -> "2" [] d = 3 -> "3"
      [] d = 4 -> "4" [] d = 5 -> "5" [] d = 6 -> "6" [] d = 7 -> "7"
      [] d = 8 -> "8" [] d = 9 -> "9"

RECURSIVE StrToInt(_)
\* int() of a string of decimal digits.
StrToInt(s) ==
    IF s = <<>> THEN 0
    ELSE 10 * StrToInt(SubSeq(s, 1, Len(s) - 1)) + DigitVal(s[Len(s)])

RECURSIVE IntToStr(_)
IntToStr(n) ==
    IF n < 10 THEN <<DigitChar(n)>>
    ELSE IntToStr(n \div 10) \o <<DigitChar(n % 10)>>

\* re.search of a pattern without metacharacters: substring search.
Search(pat, s) ==
    \E i \in 1..(Len(s) - Len(pat) + 1) : SubSeq(s, i, i + Len(pat) - 1) = pat

RECURSIVE Spaces(_)
Spaces(n) == IF n <= 0 THEN <<>> ELSE <<" ">> \o Spaces(n - 1)

\* One line of `ps ax -o pid,command`: the pid right-aligned in its column,
\* a space, the command line.
PsLine(p, cmd) ==
    LET digits == IntToStr(p)
    IN Spaces(PidColumn - Len(digits)) \o digits \o <<" ">> \o cmd \o <<"\n">>

RECURSIVE PsLines(_)
PsLines(table) ==
    IF table = <<>> THEN <<>>
    ELSE <<PsLine(table[1].pid, table[1].cmd)>> \o PsLines(Tail(table))

\* What ps writes for a table of (pid, command line) entries.
PsOutput(table) == <<PsHeader>> \o PsLines(table)

\* ------------------------------------------------------------- environment
DeadProc == [alive |-> FALSE, inst |-> 0, cmd |-> NoStr, owner |-> "self"]

\* os.kill(p, 0): 0 when the signal could be sent, else the errno.
Kill(table, p) ==
    IF p \notin DOMAIN table \/ ~table[p].alive THEN ESRCH
    ELSE IF table[p].owner # "self" THEN EPERM
    ELSE 0

\* The results open() of /proc/<p>/<kind> can have: the file is missing once
\* the process is gone, /proc/<p>/io of another user's process is unreadable,
\* and any open can fail for want of a file descriptor.
OpenOutcomes(table, kind, p) ==
    (IF p \notin DOMAIN table \/ ~table[p].alive THEN {ENOENT}
     ELSE IF table[p].owner # "self" /\ kind = "io" THEN {EACCES}
     ELSE {0}) \cup {EMFILE}

\* Reading an open /proc file of a process instance: fails with ESRCH once
\* that instance has exited.
ReadOutcome(table, file) ==
    IF file.pid \in DOMAIN table /\ table[file.pid].alive
       /\ table[file.pid].inst = file.inst
    THEN 0 ELSE ESRCH

RECURSIVE TableFrom(_, _)
TableFrom(table, p) ==
    IF p > SelfPid THEN <<>>
    ELSE (IF table[p].alive THEN <<[pid |-> p, cmd |-> table[p].cmd]>> ELSE <<>>)
         \o TableFrom(table, p + 1)

\* The (pid, command line) entries ps enumerates, in pid order.
ProcTable(table) == TableFrom(table, 1)

\* Number of processes other than the agent started so far.
Spawned(table) == table[1].inst + table[2].inst

\* ----------------------------------------------------------------- readers
NoFile == [bind |-> 0, kind |-> "none", pid |-> NoPid, inst |-> 0]

\* One call made by a reader.  The last three fields are used by emit events
\* only: the metric name, the type tag handed to print_sample and the extra
\* fields handed to the logger.
Event(op, r, res) ==
    [op |-> op, bind |-> r.bind, kind |-> r.kind, pid |-> r.pid, res |-> res,
     name |-> "", tag |-> NoTag, extra |-> {}]

MonitorEvent(op, p, res) ==
    [op |-> op, bind |-> 0, kind |-> "monitor", pid |-> p, res |-> res,
     name |-> "", tag |-> NoTag, extra |-> {}]

\* BaseReader.__init__ through the StatReader, StatusReader and IoReader
\* constructors; bind numbers the binding the reader belongs to.
NewReader(kind, p, id, bind) ==
    [kind |-> kind, pid |-> p, id |-> id, bind |-> bind, file |-> NoFile,
     failed |-> FALSE]

Rid(r) == <<r.bind, r.kind>>

\* print_sample adding the type field whether or not a type was given.
M_PrintSample_AlwaysTyped(r, name, value, tag) ==
    [Event("emit", r, value) EXCEPT
        !.name = name, !.tag = tag,
        !.extra = {<<"app", r.id>>, <<"type", IF tag # NoTag THEN tag[1] ELSE "None">>}]

\* BaseReader.print_sample: the call of emit_value it makes.  tag is NoTag
\* for a type_value of None, else the one-element sequence of the tag; extra
\* is the dictionary handed to the logger, as a set of (key, value) pairs.
PrintSample(r, name, value, tag) ==
    [Event("emit", r, value) EXCEPT
        !.name = name, !.tag = tag,
        !.extra = {<<"app", r.id>>} \cup (IF tag # NoTag THEN {<<"type", tag[1]>>} ELSE {})]

\* The print_sample calls the gather_sample of each reader class makes for a
\* file with every line it looks for, in the order /proc lists them.  The
\* values read are not modelled here: each sample carries 0.
GatherSample(r) ==
    CASE r.kind = "stat" ->
           <<PrintSample(r, "app.cpu", 0, <<"user">>),
             PrintSample(r, "app.cpu", 0, <<"system">>),
             PrintSample(r, "app.uptime", 0, NoTag),
             PrintSample(r, "app.nice", 0, NoTag),
             PrintSample(r, "app.threads", 0, NoTag)>>
      [] r.kind = "status" ->
           <<PrintSample(r, "app.mem.bytes", 0, <<"peak_vmsize">>),
             PrintSample(r, "app.mem.bytes", 0, <<"vmsize">>),
             PrintSample(r, "app.mem.bytes", 0, <<"peak_resident">>),
             PrintSample(r, "app.mem.bytes", 0, <<"resident">>)>>
      [] r.kind = "io" ->
           <<PrintSample(r, "app.disk.bytes", 0, <<"read">>),
             PrintSample(r, "app.disk.bytes", 0, <<"write">>),
             PrintSample(r, "app.disk.requests", 0, <<"read">>),
             PrintSample(r, "app.disk.requests", 0, <<"write">>)>>

\* The seek(0) and gather_sample(file) that end run_single_cycle; a failing
\* read raises out of gather_sample.
SeekAndGather(r, readRes) ==
    IF readRes = 0
    THEN [r |-> r, raised |-> FALSE,
          ev |-> <<Event("seek", r, 0), Event("gather", r, 0)>> \o GatherSample(r)]
    ELSE [r |-> r, raised |-> TRUE,
          ev |-> <<Event("seek", r, 0), Event("gather", r, readRes)>>]

\* run_single_cycle without its early exit for a failed reader.
M_RunSingleCycle_NoEarlyExit(r, openRes, inst, readRes) ==
    LET entry == <<Event("run", r, 0)>>
    IN
    IF r.file = NoFile
    THEN LET attempt == entry \o <<Event("open", r, openRes)>>
         IN IF openRes = 0
            THEN LET opened == [r EXCEPT !.file = [bind |-> r.bind, kind |-> r.kind,
                                                   pid |-> r.pid, inst |-> inst]]
                     rest == SeekAndGather(opened, 0)
                 IN [rest EXCEPT !.ev = attempt \o rest.ev]
            ELSE IF openRes \in {EACCES, ENOENT}
            THEN [r |-> [r EXCEPT !.failed = TRUE], raised |-> FALSE,
                  ev |-> attempt \o <<Event("log_error", r, openRes)>>]
            ELSE [r |-> r, raised |-> TRUE, ev |-> attempt]
    ELSE LET rest == SeekAndGather(r, readRes)
         IN [rest EXCEPT !.ev = entry \o rest.ev]

\* run_single_cycle treating every open error as a permanent failure.
M_RunSingleCycle_SwallowsOpenError(r, openRes, inst, readRes) ==
    LET entry == <<Event("run", r, 0)>>
    IN
    IF r.failed THEN [r |-> r, raised |-> FALSE, ev |-> entry]
    ELSE IF r.file = NoFile
    THEN LET attempt == entry \o <<Event("open", r, openRes)>>
         IN IF openRes = 0
            THEN LET opened == [r EXCEPT !.file = [bind |-> r.bind, kind |-> r.kind,
                                                   pid |-> r.pid, inst |-> inst]]
                     rest == SeekAndGather(opened, 0)
                 IN [rest EXCEPT !.ev = attempt \o rest.ev]
            ELSE [r |-> [r EXCEPT !.failed = TRUE], raised |-> FALSE,
                  ev |-> attempt \o <<Event("log_error", r, openRes)>>]
    ELSE LET rest == SeekAndGather(r, readRes)
         IN [rest EXCEPT !.ev = entry \o rest.ev]

\* run_single_cycle logging a permission or not-found error without marking
\* the reader failed.
M_RunSingleCycle_ForgetsFailure(r, openRes, inst, readRes) ==
    LET entry == <<Event("run", r, 0)>>
    IN
    IF r.failed THEN [r |-> r, raised |-> FALSE, ev |-> entry]
    ELSE IF r.file = NoFile
    THEN LET attempt == entry \o <<Event("open", r, openRes)>>
         IN IF openRes = 0
            THEN LET opened == [r EXCEPT !.file = [bind |-> r.bind, kind |-> r.kind,
                                                   pid |-> r.pid, inst |-> inst]]
                     rest == SeekAndGather(opened, 0)
                 IN [rest EXCEPT !.ev = attempt \o rest.ev]
            ELSE IF openRes \in {EACCES, ENOENT}
            THEN [r |-> r, raised |-> FALSE,
                  ev |-> attempt \o <<Event("log_error", r, openRes)>>]
            ELSE [r |-> r, raised |-> TRUE, ev |-> attempt]
    ELSE LET rest == SeekAndGather(r, readRes)
         IN [rest EXCEPT !.ev = entry \o rest.ev]

\* run_single_cycle opening the file in every cycle instead of keeping it.
M_RunSingleCycle_ReopensEachCycle(r, openRes, inst, readRes) ==
    LET entry == <<Event("run", r, 0)>>
        attempt == entry \o <<Event("open", r, openRes)>>
    IN
    IF r.failed THEN [r |-> r, raised |-> FALSE, ev |-> entry]
    ELSE IF openRes = 0
    THEN LET opened == [r EXCEPT !.file = [bind |-> r.bind, kind |-> r.kind,
                                           pid |-> r.pid, inst |-> inst]]
             rest == SeekAndGather(opened, 0)
         IN [rest EXCEPT !.ev = attempt \o rest.ev]
    ELSE IF openRes \in {EACCES, ENOENT}
    THEN [r |-> [r EXCEPT !.failed = TRUE], raised |-> FALSE,
          ev |-> attempt \o <<Event("log_error", r, openRes)>>]
    ELSE [r |-> r, raised |-> TRUE, ev |-> attempt]

\* run_single_cycle marking the reader failed before it raises an unexpected
\* open error.
M_RunSingleCycle_FailsOnRaise(r, openRes, inst, readRes) ==
    LET entry == <<Event("run", r, 0)>>
    IN
    IF r.failed THEN [r |-> r, raised |-> FALSE, ev |-> entry]
    ELSE IF r.file = NoFile
    THEN LET attempt == entry \o <<Event("open", r, openRes)>>
         IN IF openRes = 0
            THEN LET opened == [r EXCEPT !.file = [bind |-> r.bind, kind |-> r.kind,
                                                   pid |-> r.pid, inst |-> inst]]
                     rest == SeekAndGather(opened, 0)
                 IN [rest EXCEPT !.ev = attempt \o rest.ev]
            ELSE IF openRes \in {EACCES, ENOENT}
            THEN [r |-> [r EXCEPT !.failed = TRUE], raised |-> FALSE,
                  ev |-> attempt \o <<Event("log_error", r, openRes)>>]
            ELSE [r |-> [r EXCEPT !.failed = TRUE], raised |-> TRUE, ev |-> attempt]
    ELSE LET rest == SeekAndGather(r, readRes)
         IN [rest EXCEPT !.ev = entry \o rest.ev]

\* BaseReader.run_single_cycle.  openRes is what open() does if it is called,
\* inst the process instance whose file it opens, readRes what reading the
\* reader's file does.
RunSingleCycle(r, openRes, inst, readRes) ==
    LET entry == <<Event("run", r, 0)>>
    IN
    IF r.failed THEN [r |-> r, raised |-> FALSE, ev |-> entry]
    ELSE IF r.file = NoFile
    THEN LET attempt == entry \o <<Event("open", r, openRes)>>
         IN IF openRes = 0
            THEN LET opened == [r EXCEPT !.file = [bind |-> r.bind, kind |-> r.kind,
                                                   pid |-> r.pid, inst |-> inst]]
                     rest == SeekAndGather(opened, 0)
                 IN [rest EXCEPT !.ev = attempt \o rest.ev]
            ELSE IF openRes \in {EACCES, ENOENT}
            THEN [r |-> [r EXCEPT !.failed = TRUE], raised |-> FALSE,
                  ev |-> attempt \o <<Event("log_error", r, openRes)>>]
            ELSE [r |-> r, raised |-> TRUE, ev |-> attempt]
    ELSE LET rest == SeekAndGather(r, readRes)
         IN [rest EXCEPT !.ev = entry \o rest.ev]

\* The nearest integer to n / d for n >= 0 and d > 0, halves going up.
Round(n, d) == (2 * n + d) \div (2 * d)

\* A conversion to centiseconds that rounds to the nearest integer.
M_CalculateTimeCs_Rounds(j, hz) == Round(j * 100, hz)

\* StatReader.__calculate_time_cs: int() of a non-negative float drops its
\* fraction.  The float quotient has the integer part of the exact one for
\* every tick count below 2^53 / 1000.
CalculateTimeCs(j, hz) == (j * 100) \div hz

\* StatReader.calculate_time_ms.
CalculateTimeMs(j, hz) == (j * 1000) \div hz

\* The uptimes below ten seconds, in centiseconds, whose two-decimal text
\* converts to a float that times 1000.0 lies just under the exact product
\* (float("2.01") * 1000.0 is 2009.9999999999998).
LossyUptimeCs == {201, 203, 402, 406, 803, 804, 811, 812, 819}

\* int(float(text) * 1000.0) for the text /proc/uptime prints for cs
\* centiseconds, cs < 1000.
UptimeFileMs(cs) == 10 * cs - (IF cs \in LossyUptimeCs THEN 1 ELSE 0)

\* int(time.time()) * 1000 for a clock reading in centiseconds.
WallMs(cs) == (cs \div 100) * 1000

\* __get_uptime_ms that reads /proc/uptime in every call.
M_GetUptimeMs_ReadsEveryTime(boot, wall, up) ==
    [boot |-> WallMs(wall) - UptimeFileMs(up), reads |-> 1, ms |-> UptimeFileMs(up)]

\* StatReader.__get_uptime_ms: the boot time after the call, the number of
\* reads of /proc/uptime the call made and the value returned.
GetUptimeMs(boot, wall, up) ==
    LET cached == IF boot = NoBootTime THEN WallMs(wall) - UptimeFileMs(up) ELSE boot
    IN [boot |-> cached,
        reads |-> IF boot = NoBootTime THEN 1 ELSE 0,
        ms |-> WallMs(wall) - cached]

\* close without the finally clause: the file is closed and the reference kept.
M_Close_KeepsReference(r) ==
    [r |-> [r EXCEPT !.failed = FALSE],
     released |-> IF r.file # NoFile THEN {r.file} ELSE {}]

\* close that drops the reader's reference without closing the file.
M_Close_KeepsHandle(r) ==
    [r |-> [r EXCEPT !.file = NoFile, !.failed = FALSE], released |-> {}]

\* BaseReader.close: closing a read-only handle does not fail, so the flag
\* set on entry is cleared again before the method returns.  The result is
\* the reader after the call and the handles the call released.
Close(r) ==
    [r |-> [r EXCEPT !.file = NoFile, !.failed = FALSE],
     released |-> IF r.file # NoFile THEN {r.file} ELSE {}]

\* The match of '^(\w+):\s*(\d+)' at the start of a line: whether it matches,
\* group 1 and int() of group 2.  Neither ':' nor a digit is taken by the
\* group before it, so the greedy match is the only one.
MatchStatusLine(line) ==
    LET w == WordCharsLen(line)
        after == IF Len(line) > w /\ line[w + 1] = ":"
                 THEN LStrip(SubSeq(line, w + 2, Len(line)))
                 ELSE <<>>
        d == DigitsLen(after)
    IN [ok |-> w >= 1 /\ d >= 1,
        name |-> SubSeq(line, 1, w),
        value |-> StrToInt(SubSeq(after, 1, d))]

\* The field names StatusReader and IoReader look for.
KeyVmSize == <<"V", "m", "S", "i", "z", "e">>
KeyVmPeak == <<"V", "m", "P", "e", "a", "k">>
KeyVmRSS == <<"V", "m", "R", "S", "S">>
KeyVmHWM == <<"V", "m", "H", "W", "M">>
KeyRchar == <<"r", "c", "h", "a", "r">>
KeySyscr == <<"s", "y", "s", "c", "r">>
KeyWchar == <<"w", "c", "h", "a", "r">>
KeySyscw == <<"s", "y", "s", "c", "w">>

\* The body of StatusReader.gather_sample's loop with the value reported in
\* kilobytes as read.
M_StatusLineSample_NoKilobytes(r, line) ==
    LET m == MatchStatusLine(line)
    IN IF ~m.ok THEN <<>>
       ELSE IF m.name = KeyVmSize
       THEN <<PrintSample(r, "app.mem.bytes", m.value, <<"vmsize">>)>>
       ELSE IF m.name = KeyVmPeak
       THEN <<PrintSample(r, "app.mem.bytes", m.value, <<"peak_vmsize">>)>>
       ELSE IF m.name = KeyVmRSS
       THEN <<PrintSample(r, "app.mem.bytes", m.value, <<"resident">>)>>
       ELSE IF m.name = KeyVmHWM
       THEN <<PrintSample(r, "app.mem.bytes", m.value, <<"peak_resident">>)>>
       ELSE <<>>

\* The body of StatusReader.gather_sample's loop: the samples one line gives.
StatusLineSample(r, line) ==
    LET m == MatchStatusLine(line)
    IN IF ~m.ok THEN <<>>
       ELSE IF m.name = KeyVmSize
       THEN <<PrintSample(r, "app.mem.bytes", m.value * 1024, <<"vmsize">>)>>
       ELSE IF m.name = KeyVmPeak
       THEN <<PrintSample(r, "app.mem.bytes", m.value * 1024, <<"peak_vmsize">>)>>
       ELSE IF m.name = KeyVmRSS
       THEN <<PrintSample(r, "app.mem.bytes", m.value * 1024, <<"resident">>)>>
       ELSE IF m.name = KeyVmHWM
       THEN <<PrintSample(r, "app.mem.bytes", m.value * 1024, <<"peak_resident">>)>>
       ELSE <<>>

RECURSIVE StatusGatherSample(_, _)
\* StatusReader.gather_sample on the lines of its file.
StatusGatherSample(r, lines) ==
    IF lines = <<>> THEN <<>>
    ELSE StatusLineSample(r, Head(lines)) \o StatusGatherSample(r, Tail(lines))

\* int() accepts a string of decimal digits (the signs and blanks it also
\* accepts do not occur in the texts used here).
IsInt(s) == s # <<>> /\ DigitsLen(s) = Len(s)

\* The body of IoReader.gather_sample's loop: the samples one line gives, and
\* whether it raised.  fields[0] raises IndexError when split() finds no
\* field, fields[1] when it finds one only; int() raises ValueError.
IoLineSample(r, line) ==
    LET fields == Split(line)
        Sample(name, tag) ==
            IF Len(fields) < 2 \/ ~IsInt(fields[2])
            THEN [ev |-> <<>>, raised |-> TRUE]
            ELSE [ev |-> <<PrintSample(r, name, StrToInt(fields[2]), tag)>>,
                  raised |-> FALSE]
    IN IF fields = <<>> THEN [ev |-> <<>>, raised |-> TRUE]
       ELSE IF fields[1] = KeyRchar \o <<":">> THEN Sample("app.disk.bytes", <<"read">>)
       ELSE IF fields[1] = KeySyscr \o <<":">> THEN Sample("app.disk.requests", <<"read">>)
       ELSE IF fields[1] = KeyWchar \o <<":">> THEN Sample("app.disk.bytes", <<"write">>)
       ELSE IF fields[1] = KeySyscw \o <<":">> THEN Sample("app.disk.requests", <<"write">>)
       ELSE [ev |-> <<>>, raised |-> FALSE]

RECURSIVE IoGatherSample(_, _)
\* IoReader.gather_sample on the lines of its file: the loop ends at the
\* first line that raises.
IoGatherSample(r, lines) ==
    IF lines = <<>> THEN [ev |-> <<>>, raised |-> FALSE]
    ELSE LET first == IoLineSample(r, Head(lines))
             rest == IoGatherSample(r, Tail(lines))
         IN IF first.raised THEN first
            ELSE [ev |-> first.ev \o rest.ev, raised |-> rest.raised]

\* ---------------------------------------------------------------- resolver
RECURSIVE M_ScanPs_NoStrip(_, _)
\* The loop over the lines of ps without the strip of each line.
M_ScanPs_NoStrip(lines, matcher) ==
    IF lines = <<>> THEN NoPid
    ELSE LET line == Head(lines)
             sp == Find(line, " ")
         IN IF sp > 0
               /\ Search(matcher, SubSeq(line, sp + 2, Len(line)))
            THEN StrToInt(SubSeq(line, 1, sp))
            ELSE M_ScanPs_NoStrip(Tail(lines), matcher)

RECURSIVE ScanPs(_, _)
\* The loop over the lines of ps that follow the header.
ScanPs(lines, matcher) ==
    IF lines = <<>> THEN NoPid
    ELSE LET line == Strip(Head(lines))
             sp == Find(line, " ")
         IN IF sp > 0
               /\ Search(matcher, SubSeq(line, sp + 2, Len(line)))
            THEN StrToInt(SubSeq(line, 1, sp))
            ELSE ScanPs(Tail(lines), matcher)

\* __select_process, commandline branch: the first line is read and dropped.
SelectByCommandline(lines, matcher) ==
    IF lines = <<>> THEN NoPid ELSE ScanPs(Tail(lines), matcher)

\* The pid branch taking a denied probe for an existing process.
M_SelectByPid_DeniedIsFound(table, target) ==
    LET p == IF target = DollarDollar THEN SelfPid ELSE StrToInt(target)
    IN IF Kill(table, p) # ESRCH THEN p ELSE NoPid

\* __select_process, pid branch.
SelectByPid(table, target) ==
    LET p == IF target = DollarDollar THEN SelfPid ELSE StrToInt(target)
    IN IF Kill(table, p) = 0 THEN p ELSE NoPid

\* __select_process taking the pid branch whenever a pid is configured.
M_SelectProcess_PidFirst(table, matcher, target) ==
    IF target # NoStr
    THEN SelectByPid(table, target)
    ELSE SelectByCommandline(PsOutput(ProcTable(table)), matcher)

\* ProcessMonitor.__select_process
SelectProcess(table, matcher, target) ==
    IF matcher # NoStr
    THEN SelectByCommandline(PsOutput(ProcTable(table)), matcher)
    ELSE SelectByPid(table, target)

\* __is_running taking every error of the probe for a dead process.
M_IsRunning_DeniedIsDead(table, p) == Kill(table, p) = 0

\* ProcessMonitor.__is_running
IsRunning(table, p) ==
    LET errno == Kill(table, p)
    IN IF errno = 0 THEN TRUE ELSE errno # ESRCH

\* ----------------------------------------------------------------- monitor
\* __set_process testing its argument instead of the bound process id before
\* it closes the readers.
M_SetProcess_ClosesOnNewPid(m, newPid) ==
    LET closing == IF newPid # NoPid THEN m.gathers ELSE <<>>
        bind == IF newPid # NoPid THEN m.bindSeq + 1 ELSE m.bindSeq
    IN [pid |-> newPid,
        gathers |-> IF newPid # NoPid
                    THEN [i \in 1..Len(Kinds) |-> NewReader(Kinds[i], newPid, m.id, bind)]
                    ELSE <<>>,
        bindSeq |-> bind,
        closedRids |-> {Rid(closing[i]) : i \in 1..Len(closing)},
        released |-> UNION {Close(closing[i]).released : i \in 1..Len(closing)},
        ev |-> [i \in 1..Len(closing) |->
                  Event("close", closing[i], Cardinality(Close(closing[i]).released))]]

\* __set_process without the reset of the reader list.
M_SetProcess_KeepsReaders(m, newPid) ==
    LET closing == IF m.pid # NoPid THEN m.gathers ELSE <<>>
        bind == IF newPid # NoPid THEN m.bindSeq + 1 ELSE m.bindSeq
    IN [pid |-> newPid,
        gathers |-> [i \in 1..Len(m.gathers) |-> Close(m.gathers[i]).r]
                    \o (IF newPid # NoPid
                        THEN [i \in 1..Len(Kinds) |-> NewReader(Kinds[i], newPid, m.id, bind)]
                        ELSE <<>>),
        bindSeq |-> bind,
        closedRids |-> {Rid(closing[i]) : i \in 1..Len(closing)},
        released |-> UNION {Close(closing[i]).released : i \in 1..Len(closing)},
        ev |-> [i \in 1..Len(closing) |->
                  Event("close", closing[i], Cardinality(Close(closing[i]).released))]]

\* __set_process with the NetStatReader and SockStatReader lines enabled.
M_SetProcess_AddsNetReaders(m, newPid) ==
    LET closing == IF m.pid # NoPid THEN m.gathers ELSE <<>>
        bind == IF newPid # NoPid THEN m.bindSeq + 1 ELSE m.bindSeq
    IN [pid |-> newPid,
        gathers |-> IF newPid # NoPid
                    THEN [i \in 1..Len(Kinds) |-> NewReader(Kinds[i], newPid, m.id, bind)]
                         \o <<NewReader("netstat", newPid, m.id, bind),
                              NewReader("sockstat", newPid, m.id, bind)>>
                    ELSE <<>>,
        bindSeq |-> bind,
        closedRids |-> {Rid(closing[i]) : i \in 1..Len(closing)},
        released |-> UNION {Close(closing[i]).released : i \in 1..Len(closing)},
        ev |-> [i \in 1..Len(closing) |->
                  Event("close", closing[i], Cardinality(Close(closing[i]).released))]]

\* __set_process building the readers without looking at its argument.
M_SetProcess_BuildsReadersForNone(m, newPid) ==
    LET closing == IF m.pid # NoPid THEN m.gathers ELSE <<>>
        bind == IF newPid # NoPid THEN m.bindSeq + 1 ELSE m.bindSeq
    IN [pid |-> newPid,
        gathers |-> [i \in 1..Len(Kinds) |-> NewReader(Kinds[i], newPid, m.id, bind)],
        bindSeq |-> bind,
        closedRids |-> {Rid(closing[i]) : i \in 1..Len(closing)},
        released |-> UNION {Close(closing[i]).released : i \in 1..Len(closing)},
        ev |-> [i \in 1..Len(closing) |->
                  Event("close", closing[i], Cardinality(Close(closing[i]).released))]]

\* __set_process keeping the readers it has closed when it unbinds.
M_SetProcess_KeepsClosedReaders(m, newPid) ==
    LET closing == IF m.pid # NoPid THEN m.gathers ELSE <<>>
        bind == IF newPid # NoPid THEN m.bindSeq + 1 ELSE m.bindSeq
    IN [pid |-> newPid,
        gathers |-> IF newPid # NoPid
                    THEN [i \in 1..Len(Kinds) |-> NewReader(Kinds[i], newPid, m.id, bind)]
                    ELSE [i \in 1..Len(m.gathers) |-> Close(m.gathers[i]).r],
        bindSeq |-> bind,
        closedRids |-> {Rid(closing[i]) : i \in 1..Len(closing)},
        released |-> UNION {Close(closing[i]).released : i \in 1..Len(closing)},
        ev |-> [i \in 1..Len(closing) |->
                  Event("close", closing[i], Cardinality(Close(closing[i]).released))]]

\* ProcessMonitor.__set_process applied to the monitor m = [pid, gathers,
\* bindSeq, id]: the result carries the new fields, the readers close() was
\* called on, the handles that were released and one close event per call
\* (its res is the number of handles the call released).
SetProcess(m, newPid) ==
    LET closing == IF m.pid # NoPid THEN m.gathers ELSE <<>>
        bind == IF newPid # NoPid THEN m.bindSeq + 1 ELSE m.bindSeq
    IN [pid |-> newPid,
        gathers |-> IF newPid # NoPid
                    THEN [i \in 1..Len(Kinds) |-> NewReader(Kinds[i], newPid, m.id, bind)]
                    ELSE <<>>,
        bindSeq |-> bind,
        closedRids |-> {Rid(closing[i]) : i \in 1..Len(closing)},
        released |-> UNION {Close(closing[i]).released : i \in 1..Len(closing)},
        ev |-> [i \in 1..Len(closing) |->
                  Event("close", closing[i], Cardinality(Close(closing[i]).released))]]

\* ------------------------------------------------------------------ actions
\* The variables of the resolver's own specification, where it is not run.
SelUnused ==
    /\ psTable = <<>>
    /\ psMatcher = NoStr
    /\ selResult = NoPid
    /\ selCalls = 0

\* The variables of the reader's own specification, where it is not run.
ReaderUnused ==
    /\ reader = NewReader("stat", SelfPid, IdTomcat, 1)
    /\ readerHandles = {}
    /\ readerOps = <<>>

\* The variables of the tick conversions' own specification, where it is not run.
TicksUnused ==
    /\ jiffies_per_sec = 100
    /\ jiffies = 0
    /\ time_cs = 0
    /\ time_ms = 0
    /\ conversions = 0

\* The variables of the uptime specification, where it is not run.
UptimeUnused ==
    /\ wall_cs = 0
    /\ uptime_cs = 0
    /\ starttime = 0
    /\ boot_time_ms = NoBootTime
    /\ uptime_reads = 0
    /\ process_uptime = 0
    /\ uptime_samples = 0

\* The variables of the parsers' specification, where it is not run.
ParseUnused ==
    /\ parse_kind = "status"
    /\ parse_src = <<>>
    /\ parse_text = <<>>
    /\ parse_out = <<>>
    /\ parse_raised = FALSE
    /\ parse_done = FALSE

\* The value of httpSourceAddress when the module is loaded.
DefaultSourceAddress == "127.0.0.1"
\* An address that has not been set.
NoAddress == ""
\* The Apache monitor instances of the agent.
ApacheMonitors == 1..MaxMonitors

\* The variables of the Apache monitors' specification, where it is not run.
ApacheUnused ==
    /\ httpSourceAddress = DefaultSourceAddress
    /\ apache_config = [m \in ApacheMonitors |-> {}]
    /\ apache_sourceaddress = [m \in ApacheMonitors |-> NoAddress]
    /\ apache_fetched = [m \in ApacheMonitors |-> NoAddress]
    /\ apache_fetches = 0

\* The variables of the pipe specification, where it is not run.
PipeUnused ==
    /\ ps_out = <<>>
    /\ ps_pipe = <<>>
    /\ ps_exited = FALSE
    /\ sel_pc = "readline"

\* The monitor as it is constructed, for the specifications that do not run it.
MonitorUnused ==
    /\ commandline_matcher = NoStr
    /\ target_pid = DollarDollar
    /\ monitor_id = IdTomcat
    /\ pid = NoPid
    /\ gathers = <<>>
    /\ idx = 1
    /\ raised = FALSE
    /\ procs = [p \in Pids |-> DeadProc]
    /\ openHandles = {}
    /\ bindSeq = 0
    /\ closed = {}
    /\ permFailed = {}
    /\ errorLog = <<>>
    /\ events = <<>>
    /\ boundInst = 0
    /\ staleBind = 0

Init ==
    /\ commandline_matcher \in {NoStr, PatternJava}
    /\ target_pid \in IF commandline_matcher = NoStr
                      THEN {NoStr, DollarDollar, <<"1">>}
                      ELSE {NoStr, <<"1">>}
    /\ monitor_id = IdTomcat
    /\ pid = NoPid
    /\ gathers = <<>>
    /\ pc = "init"
    /\ idx = 1
    /\ raised = FALSE
    /\ procs = [p \in Pids |-> IF p = SelfPid
                               THEN [alive |-> TRUE, inst |-> 1, cmd |-> CmdAgent,
                                     owner |-> "self"]
                               ELSE DeadProc]
    /\ openHandles = {}
    /\ bindSeq = 0
    /\ closed = {}
    /\ permFailed = {}
    /\ errorLog = <<>>
    /\ events = <<>>
    /\ boundInst = 0
    /\ staleBind = 0
    /\ SelUnused
    /\ ReaderUnused
    /\ TicksUnused
    /\ UptimeUnused
    /\ PipeUnused
    /\ ParseUnused
    /\ ApacheUnused

\* The check of _initialize looking at commandline alone.
M_ConfigOk_CommandlineOnly(matcher, target) == matcher # NoStr

\* The check of _initialize: BadMonitorConfiguration is raised when it fails.
ConfigOk(matcher, target) == ~(matcher = NoStr /\ target = NoStr)

\* ProcessMonitor._initialize
Initialize ==
    /\ pc = "init"
    /\ pc' = IF ConfigOk(commandline_matcher, target_pid) THEN "idle"
             ELSE "config_error"
    /\ pid' = NoPid
    /\ gathers' = <<>>
    /\ UNCHANGED <<configVars, idx, raised, procs, openHandles,
                   bindSeq, closed, permFailed, errorLog, events,
                   boundInst, staleBind, auxVars>>

\* What Popen of ps can return: fork fails for want of resources.  The pid
\* branch starts no child.
PopenOutcomes(matcher) == IF matcher # NoStr THEN {0, EAGAIN} ELSE {0}

\* The resolution step with a failure of Popen caught and taken for "no
\* process found".
M_SelectAndBind_SwallowsFailure(m, found, popenRes) ==
    IF popenRes # 0
    THEN LET s == SetProcess(m, NoPid)
         IN [s EXCEPT !.ev = <<MonitorEvent("select_raised", NoPid, popenRes)>> \o s.ev]
            @@ [raised |-> FALSE]
    ELSE LET s == SetProcess(m, found)
         IN [s EXCEPT !.ev = <<MonitorEvent("select", found, 0)>> \o s.ev]
            @@ [raised |-> FALSE]

\* gather_sample, line 547: self.__set_process(self.__select_process()).
\* When Popen raises, __select_process has no child to wait for and the
\* exception leaves gather_sample before __set_process is called.
SelectAndBind(m, found, popenRes) ==
    IF popenRes # 0
    THEN [pid |-> m.pid, gathers |-> m.gathers, bindSeq |-> m.bindSeq,
          closedRids |-> {}, released |-> {},
          ev |-> <<MonitorEvent("select_raised", NoPid, popenRes)>>,
          raised |-> TRUE]
    ELSE LET s == SetProcess(m, found)
         IN [s EXCEPT !.ev = <<MonitorEvent("select", found, 0)>> \o s.ev]
            @@ [raised |-> FALSE]

\* ProcessMonitor.gather_sample up to its loop over the readers.
CycleStart ==
    /\ pc = "idle"
    /\ \E popenRes \in PopenOutcomes(commandline_matcher) :
       LET m0 == [pid |-> pid, gathers |-> gathers, bindSeq |-> bindSeq,
                  id |-> monitor_id]
           probed == pid # NoPid
           dead == probed /\ ~IsRunning(procs, pid)
           s1 == IF dead THEN SetProcess(m0, NoPid)
                 ELSE [m0 EXCEPT !.pid = pid] @@
                      [closedRids |-> {}, released |-> {}, ev |-> <<>>]
           selecting == s1.pid = NoPid
           found == SelectProcess(procs, commandline_matcher, target_pid)
           s2 == IF selecting
                 THEN SelectAndBind([pid |-> s1.pid, gathers |-> s1.gathers,
                                     bindSeq |-> s1.bindSeq, id |-> monitor_id],
                                    found, popenRes)
                 ELSE s1 @@ [raised |-> FALSE]
       IN /\ pid' = s2.pid
          /\ gathers' = s2.gathers
          /\ bindSeq' = s2.bindSeq
          /\ closed' = closed \cup s1.closedRids \cup s2.closedRids
          /\ openHandles' = (openHandles \ s1.released) \ s2.released
          /\ events' = (IF probed
                        THEN <<MonitorEvent("is_running", pid, Kill(procs, pid))>>
                        ELSE <<>>)
                       \o s1.ev
                       \o (IF selecting THEN s2.ev ELSE <<>>)
          /\ raised' = s2.raised
          /\ pc' = IF s2.raised THEN "idle" ELSE "run"
          /\ boundInst' = IF s2.pid = NoPid THEN 0
                          ELSE IF s2.bindSeq # bindSeq THEN procs[s2.pid].inst
                          ELSE boundInst
          /\ staleBind' = IF probed /\ (~procs[pid].alive \/ procs[pid].inst # boundInst)
                          THEN bindSeq ELSE 0
    /\ idx' = 1
    /\ UNCHANGED <<configVars, procs, permFailed, errorLog, auxVars>>

\* The readers of the error messages among the calls ev, in order.
LoggedBy(ev) ==
    LET IsLog(e) == e.op = "log_error"
        logs == SelectSeq(ev, IsLog)
    IN [j \in 1..Len(logs) |-> <<logs[j].bind, logs[j].kind>>]

\* One iteration of gather_sample's loop: run_single_cycle of the next reader.
RunReader ==
    /\ pc = "run"
    /\ idx <= Len(gathers)
    /\ LET r == gathers[idx]
       IN \E openRes \in OpenOutcomes(procs, r.kind, r.pid) :
            LET inst == IF r.pid \in DOMAIN procs THEN procs[r.pid].inst ELSE 0
                out == RunSingleCycle(r, openRes, inst, ReadOutcome(procs, r.file))
            IN /\ gathers' = [gathers EXCEPT ![idx] = out.r]
               /\ events' = events \o out.ev
               /\ openHandles' = IF out.r.file # NoFile
                                 THEN openHandles \cup {out.r.file}
                                 ELSE openHandles
               /\ permFailed' = permFailed \cup
                     {<<out.ev[j].bind, out.ev[j].kind>> :
                        j \in {k \in 1..Len(out.ev) :
                                 /\ out.ev[k].op = "open"
                                 /\ out.ev[k].res \in {EACCES, ENOENT}}}
               /\ errorLog' = errorLog \o LoggedBy(out.ev)
               /\ raised' = out.raised
               /\ pc' = IF out.raised THEN "idle" ELSE "run"
               /\ idx' = IF out.raised THEN 1 ELSE idx + 1
    /\ UNCHANGED <<configVars, pid, procs, bindSeq, closed, boundInst, staleBind,
                   auxVars>>

\* gather_sample returns once every reader has run.
CycleEnd ==
    /\ pc = "run"
    /\ idx > Len(gathers)
    /\ pc' = "idle"
    /\ idx' = 1
    /\ UNCHANGED <<configVars, pid, gathers, raised, procs, openHandles,
                   bindSeq, closed, permFailed, errorLog, events,
                   boundInst, staleBind, auxVars>>

\* The monitor is stopped by its owner.  ProcessMonitor defines no stop or
\* close hook, so none of its fields or readers is touched.
Shutdown ==
    /\ pc \in {"idle", "run"}
    /\ pc' = "stopped"
    /\ UNCHANGED <<configVars, pid, gathers, idx, raised, procs,
                   openHandles, bindSeq, closed, permFailed, errorLog, events,
                   boundInst, staleBind, auxVars>>

\* A process starts under a free process id.
Spawn ==
    /\ pc \in {"idle", "run"}
    /\ \E p \in OtherPids, cmd \in Commands, owner \in {"self", "other"} :
         /\ ~procs[p].alive
         /\ Spawned(procs) < MaxSpawns
         /\ procs' = [procs EXCEPT ![p] = [alive |-> TRUE, inst |-> procs[p].inst + 1,
                                           cmd |-> cmd, owner |-> owner]]
    /\ UNCHANGED <<configVars, pid, gathers, pc, idx, raised,
                   openHandles, bindSeq, closed, permFailed, errorLog, events,
                   boundInst, staleBind, auxVars>>

\* A process other than the agent exits.
Exit ==
    /\ pc \in {"idle", "run"}
    /\ \E p \in OtherPids :
         /\ procs[p].alive
         /\ procs' = [procs EXCEPT ![p] = [DeadProc EXCEPT !.inst = procs[p].inst]]
    /\ UNCHANGED <<configVars, pid, gathers, pc, idx, raised,
                   openHandles, bindSeq, closed, permFailed, errorLog, events,
                   boundInst, staleBind, auxVars>>

Next ==
    \/ Initialize
    \/ CycleStart
    \/ RunReader
    \/ CycleEnd
    \/ Shutdown
    \/ Spawn
    \/ Exit

Spec == Init /\ [][Next]_vars

\* ------------------------------------------- the resolver on its own tables
TablePids == {1, 2, 12, 30}
TableCommands == {CmdJava, CmdJavaArg, CmdShell}
TablePatterns == {PatternJava, <<"a", " ", "x">>, <<"1">>}

\* Every ordered process table of at most MaxTable entries with distinct pids.
Tables ==
    UNION {{t \in [1..n -> [pid : TablePids, cmd : TableCommands]] :
              \A i, j \in 1..n : i # j => t[i].pid # t[j].pid} : n \in 0..MaxTable}

InitSel ==
    /\ psTable \in Tables
    /\ psMatcher \in TablePatterns
    /\ selResult = NoPid
    /\ selCalls = 0
    /\ commandline_matcher = psMatcher
    /\ target_pid = NoStr
    /\ monitor_id = IdTomcat
    /\ pid = NoPid
    /\ gathers = <<>>
    /\ pc = "select"
    /\ idx = 1
    /\ raised = FALSE
    /\ procs = [p \in Pids |-> DeadProc]
    /\ openHandles = {}
    /\ bindSeq = 0
    /\ closed = {}
    /\ permFailed = {}
    /\ errorLog = <<>>
    /\ events = <<>>
    /\ boundInst = 0
    /\ staleBind = 0
    /\ ReaderUnused
    /\ TicksUnused
    /\ UptimeUnused
    /\ PipeUnused
    /\ ParseUnused
    /\ ApacheUnused

\* One call of __select_process in pattern mode on the output ps writes for
\* psTable.
SelectCall ==
    /\ pc = "select"
    /\ selCalls < MaxCalls
    /\ selResult' = SelectByCommandline(PsOutput(psTable), commandline_matcher)
    /\ selCalls' = selCalls + 1
    /\ UNCHANGED <<monitorVars, apacheVars, parseVars, psTable, psMatcher, readerVars, ticksVars, uptimeVars,
                   pipeVars>>

NextSel == SelectCall

SpecSel == InitSel /\ [][NextSel]_vars

\* ------------------------------------------------------ a reader on its own
\* What open() and a read of the reader's file can return to a caller that
\* drives the reader directly.
ReaderOpenResults == {0, EACCES, ENOENT, EMFILE}
ReaderReadResults == {0, ESRCH}

InitReader ==
    /\ \E kind \in {Kinds[i] : i \in 1..Len(Kinds)}, p \in Pids :
          reader = NewReader(kind, p, IdTomcat, 1)
    /\ readerHandles = {}
    /\ readerOps = <<>>
    /\ pc = "reader"
    /\ MonitorUnused
    /\ ApacheUnused
    /\ ParseUnused
    /\ SelUnused
    /\ TicksUnused
    /\ UptimeUnused
    /\ PipeUnused

\* One call of run_single_cycle on the reader.
ReaderRun ==
    /\ pc = "reader"
    /\ Len(readerOps) < MaxReaderCalls
    /\ \E openRes \in ReaderOpenResults, readRes \in ReaderReadResults :
          LET out == RunSingleCycle(reader, openRes, 1, readRes)
          IN /\ reader' = out.r
             /\ readerHandles' = readerHandles \cup
                   (IF out.r.file # NoFile THEN {out.r.file} ELSE {})
             /\ readerOps' = Append(readerOps,
                   [op |-> "run", before |-> reader, raised |-> out.raised,
                    ev |-> out.ev])
    /\ UNCHANGED <<monitorVars, apacheVars, parseVars, selVars, ticksVars, uptimeVars,
                   pipeVars>>

\* One call of close on the reader.
ReaderClose ==
    /\ pc = "reader"
    /\ Len(readerOps) < MaxReaderCalls
    /\ LET out == Close(reader)
       IN /\ reader' = out.r
          /\ readerHandles' = readerHandles \ out.released
          /\ readerOps' = Append(readerOps,
                [op |-> "close", before |-> reader, raised |-> FALSE,
                 ev |-> <<Event("close", reader, Cardinality(out.released))>>])
    /\ UNCHANGED <<monitorVars, apacheVars, parseVars, selVars, ticksVars, uptimeVars,
                   pipeVars>>

NextReader ==
    \/ ReaderRun
    \/ ReaderClose

SpecReader == InitReader /\ [][NextReader]_vars

\* ---------------------------------------------------- the tick conversions
\* Values of sysconf(SC_CLK_TCK).
ClockTicks == {100, 250, 300, 1000, 1024}

InitTicks ==
    /\ jiffies_per_sec \in ClockTicks
    /\ jiffies = 0
    /\ time_cs = 0
    /\ time_ms = 0
    /\ conversions = 0
    /\ pc = "ticks"
    /\ MonitorUnused
    /\ ApacheUnused
    /\ ParseUnused
    /\ SelUnused
    /\ ReaderUnused
    /\ UptimeUnused
    /\ PipeUnused

\* The stat reader converts one tick count to centiseconds and to milliseconds.
Convert ==
    /\ pc = "ticks"
    /\ conversions < MaxConversions
    /\ \E j \in 0..MaxTicks :
          /\ jiffies' = j
          /\ time_cs' = CalculateTimeCs(j, jiffies_per_sec)
          /\ time_ms' = CalculateTimeMs(j, jiffies_per_sec)
    /\ conversions' = conversions + 1
    /\ UNCHANGED <<monitorVars, apacheVars, parseVars, selVars, readerVars, uptimeVars, pipeVars,
                   jiffies_per_sec>>

NextTicks == Convert

SpecTicks == InitTicks /\ [][NextTicks]_vars

\* ----------------------------------------------------- the process uptime
\* SC_CLK_TCK in the uptime specification: a tick is one centisecond.
UptimeClockTicks == 100
\* Uptimes, in centiseconds, at which the reader is constructed.
FirstUptimeCs == 200..203
\* Wall-clock time of the boot, in centiseconds: on and off a whole second.
BootWallCs == {100000, 100050}
\* What the clock advances by between two steps, in centiseconds.
ClockSteps == {1, 50}

InitUptime ==
    /\ uptime_cs \in FirstUptimeCs
    /\ \E b \in BootWallCs : wall_cs = b + uptime_cs
    /\ starttime \in {150, uptime_cs}
    /\ boot_time_ms = NoBootTime
    /\ uptime_reads = 0
    /\ process_uptime = 0
    /\ uptime_samples = 0
    /\ pc = "uptime"
    /\ MonitorUnused
    /\ ApacheUnused
    /\ ParseUnused
    /\ SelUnused
    /\ ReaderUnused
    /\ TicksUnused
    /\ PipeUnused

\* Time passes: the wall clock and the uptime advance together.
ClockTick ==
    /\ pc = "uptime"
    /\ \E d \in ClockSteps :
          /\ uptime_cs + d <= MaxUptimeCs
          /\ uptime_cs' = uptime_cs + d
          /\ wall_cs' = wall_cs + d
    /\ UNCHANGED <<monitorVars, apacheVars, parseVars, selVars, readerVars, ticksVars, pipeVars, starttime,
                   boot_time_ms, uptime_reads, process_uptime, uptime_samples>>

\* StatReader.gather_sample, the app.uptime sample.
UptimeSample ==
    /\ pc = "uptime"
    /\ uptime_samples < MaxSamples
    /\ LET up == GetUptimeMs(boot_time_ms, wall_cs, uptime_cs)
       IN /\ boot_time_ms' = up.boot
          /\ uptime_reads' = uptime_reads + up.reads
          /\ process_uptime' = up.ms - CalculateTimeMs(starttime, UptimeClockTicks)
    /\ uptime_samples' = uptime_samples + 1
    /\ UNCHANGED <<monitorVars, apacheVars, parseVars, selVars, readerVars, ticksVars, pipeVars, wall_cs,
                   uptime_cs, starttime>>

NextUptime ==
    \/ ClockTick
    \/ UptimeSample

SpecUptime == InitUptime /\ [][NextUptime]_vars

\* ------------------------------------------- the resolver and the ps child
InitPipe ==
    /\ psTable \in Tables
    /\ psMatcher \in TablePatterns
    /\ selResult = NoPid
    /\ selCalls = 0
    /\ ps_out = PsOutput(psTable)
    /\ ps_pipe = <<>>
    /\ ps_exited = FALSE
    /\ sel_pc = "readline"
    /\ pc = "pipe"
    /\ MonitorUnused
    /\ ApacheUnused
    /\ ParseUnused
    /\ ReaderUnused
    /\ TicksUnused
    /\ UptimeUnused

\* ps writes its next line: the write blocks while the pipe is full.
PsWrite ==
    /\ pc = "pipe"
    /\ ps_out # <<>>
    /\ Len(ps_pipe) < PipeCap
    /\ ps_pipe' = Append(ps_pipe, Head(ps_out))
    /\ ps_out' = Tail(ps_out)
    /\ UNCHANGED <<monitorVars, apacheVars, parseVars, selVars, readerVars, ticksVars, uptimeVars,
                   ps_exited, sel_pc>>

\* ps has written everything and exits, which closes its end of the pipe.
PsExit ==
    /\ pc = "pipe"
    /\ ps_out = <<>>
    /\ ~ps_exited
    /\ ps_exited' = TRUE
    /\ UNCHANGED <<monitorVars, apacheVars, parseVars, selVars, readerVars, ticksVars, uptimeVars,
                   ps_out, ps_pipe, sel_pc>>

\* sub_proc.stdout.readline(): the header is read and dropped; the call
\* returns at end of file too.
ReadHeader ==
    /\ pc = "pipe"
    /\ sel_pc = "readline"
    /\ ps_pipe # <<>> \/ ps_exited
    /\ ps_pipe' = IF ps_pipe # <<>> THEN Tail(ps_pipe) ELSE ps_pipe
    /\ sel_pc' = "scan"
    /\ UNCHANGED <<monitorVars, apacheVars, parseVars, selVars, readerVars, ticksVars, uptimeVars,
                   ps_out, ps_exited>>

\* One turn of the loop over the lines: a matching line ends the loop with
\* its pid, the end of the file ends it with None; both go to the finally
\* clause.
ScanLine ==
    /\ pc = "pipe"
    /\ sel_pc = "scan"
    /\ ps_pipe # <<>> \/ ps_exited
    /\ IF ps_pipe # <<>>
       THEN LET found == ScanPs(<<Head(ps_pipe)>>, psMatcher)
            IN /\ ps_pipe' = Tail(ps_pipe)
               /\ selResult' = found
               /\ sel_pc' = IF found # NoPid THEN "wait" ELSE "scan"
       ELSE /\ selResult' = NoPid
            /\ sel_pc' = "wait"
            /\ UNCHANGED ps_pipe
    /\ UNCHANGED <<monitorVars, apacheVars, parseVars, psTable, psMatcher, selCalls, readerVars, ticksVars,
                   uptimeVars, ps_out, ps_exited>>

\* sub_proc.wait() in the finally clause returns once ps has exited.
WaitReturns ==
    /\ pc = "pipe"
    /\ sel_pc = "wait"
    /\ ps_exited
    /\ sel_pc' = "returned"
    /\ selCalls' = selCalls + 1
    /\ UNCHANGED <<monitorVars, apacheVars, parseVars, psTable, psMatcher, selResult, readerVars, ticksVars,
                   uptimeVars, ps_out, ps_pipe, ps_exited>>

NextPipe ==
    \/ PsWrite
    \/ PsExit
    \/ ReadHeader
    \/ ScanLine
    \/ WaitReturns

SpecPipe == InitPipe /\ [][NextPipe]_vars

\* -------------------------------------------- the status and io parsers
\* What a line of /proc/<pid>/status is written from: a field name, the
\* blanks after the colon, a number (-1 for none) and the rest of the line.
KeyFDSize == <<"F", "D", "S", "i", "z", "e">>
StatusRecs ==
    [key : {KeyVmSize, KeyVmPeak, KeyVmRSS, KeyVmHWM, KeyFDSize},
     gap : {<<>>, <<"\t">>},
     num : {-1, 0, 12},
     rest : {<<" ", "k", "B">>, <<"s", "h">>}]

\* What a line of /proc/<pid>/io is written from: a field name and a number,
\* or nothing at all for an empty line.
KeyReadBytes == <<"r", "e", "a", "d", "_", "b", "y", "t", "e", "s">>
BlankRec == [key |-> <<>>, gap |-> <<>>, num |-> -1, rest |-> <<>>]
IoRecs ==
    [key : {KeyRchar, KeySyscr, KeyWchar, KeySyscw, KeyReadBytes},
     gap : {<<" ">>}, num : {0, 12}, rest : {<<>>}] \cup {BlankRec}

\* The line of text written for a record.
TextLine(rec) ==
    IF rec = BlankRec THEN <<"\n">>
    ELSE rec.key \o <<":">> \o rec.gap
         \o (IF rec.num >= 0 THEN IntToStr(rec.num) ELSE <<>>) \o rec.rest \o <<"\n">>

\* Every text of at most MaxLines lines written from the records in recs.
TextsOf(recs) == UNION {[1..n -> recs] : n \in 0..MaxLines}

InitParse ==
    /\ parse_kind \in {"status", "io"}
    /\ parse_src \in TextsOf(IF parse_kind = "status" THEN StatusRecs ELSE IoRecs)
    /\ parse_text = [i \in 1..Len(parse_src) |-> TextLine(parse_src[i])]
    /\ parse_out = <<>>
    /\ parse_raised = FALSE
    /\ parse_done = FALSE
    /\ pc = "parse"
    /\ MonitorUnused
    /\ ApacheUnused
    /\ SelUnused
    /\ ReaderUnused
    /\ TicksUnused
    /\ UptimeUnused
    /\ PipeUnused

\* StatusReader.gather_sample is called on the text.
GatherStatus ==
    /\ pc = "parse"
    /\ parse_kind = "status"
    /\ ~parse_done
    /\ parse_out' = StatusGatherSample(NewReader("status", SelfPid, IdTomcat, 1),
                                       parse_text)
    /\ parse_raised' = FALSE
    /\ parse_done' = TRUE
    /\ UNCHANGED <<monitorVars, apacheVars, selVars, readerVars, ticksVars, uptimeVars, pipeVars,
                   parse_kind, parse_src, parse_text>>

\* IoReader.gather_sample is called on the text.
GatherIo ==
    /\ pc = "parse"
    /\ parse_kind = "io"
    /\ ~parse_done
    /\ LET out == IoGatherSample(NewReader("io", SelfPid, IdTomcat, 1), parse_text)
       IN /\ parse_out' = out.ev
          /\ parse_raised' = out.raised
    /\ parse_done' = TRUE
    /\ UNCHANGED <<monitorVars, apacheVars, selVars, readerVars, ticksVars, uptimeVars, pipeVars,
                   parse_kind, parse_src, parse_text>>

NextParse ==
    \/ GatherStatus
    \/ GatherIo

SpecParse == InitParse /\ [][NextParse]_vars

\* ------------------------------------------------------ the Apache monitors
\* self._config.get(key, default=...) on a configuration given as a set of
\* (option, value) pairs.
ConfigGet(cfg, key, default) ==
    IF \E kv \in cfg : kv[1] = key
    THEN (CHOOSE kv \in cfg : kv[1] = key)[2]
    ELSE default

\* The configurations an instance is given: no source address, or one.
ApacheConfigs ==
    {{}, {<<"source_address", "10.0.0.5">>}, {<<"source_address", "10.0.0.6">>}}

InitApache ==
    /\ httpSourceAddress = DefaultSourceAddress
    /\ apache_config \in [ApacheMonitors -> ApacheConfigs]
    /\ apache_sourceaddress = [m \in ApacheMonitors |-> NoAddress]
    /\ apache_fetched = [m \in ApacheMonitors |-> NoAddress]
    /\ apache_fetches = 0
    /\ pc = "apache"
    /\ MonitorUnused
    /\ SelUnused
    /\ ReaderUnused
    /\ TicksUnused
    /\ UptimeUnused
    /\ PipeUnused
    /\ ParseUnused

\* ApacheMonitor._initialize of one instance: the option is looked up under
\* the name 'source_addresss' and the result is stored in the global too.
ApacheInitialize ==
    /\ pc = "apache"
    /\ \E m \in ApacheMonitors :
          /\ apache_sourceaddress[m] = NoAddress
          /\ LET addr == ConfigGet(apache_config[m], "source_addresss", httpSourceAddress)
             IN /\ apache_sourceaddress' = [apache_sourceaddress EXCEPT ![m] = addr]
                /\ httpSourceAddress' = addr
    /\ UNCHANGED <<monitorVars, selVars, readerVars, ticksVars, uptimeVars, pipeVars,
                   parseVars, apache_config, apache_fetched, apache_fetches>>

\* gather_sample of an initialized instance: BindableHTTPHandler.http_open
\* binds the connection to the global's value.
ApacheFetch ==
    /\ pc = "apache"
    /\ apache_fetches < MaxFetches
    /\ \E m \in ApacheMonitors :
          /\ apache_sourceaddress[m] # NoAddress
          /\ apache_fetched' = [apache_fetched EXCEPT ![m] = httpSourceAddress]
    /\ apache_fetches' = apache_fetches + 1
    /\ UNCHANGED <<monitorVars, selVars, readerVars, ticksVars, uptimeVars, pipeVars,
                   parseVars, httpSourceAddress, apache_config, apache_sourceaddress>>

NextApache ==
    \/ ApacheInitialize
    \/ ApacheFetch

SpecApache == InitApache /\ [][NextApache]_vars

\* ------------------------------------------------------------------ claims
CycleStarts == pc = "idle" /\ pc' = "run"

HasEvent(ev, op) == \E j \in 1..Len(ev) : ev[j].op = op

\* What a reader did to its file, and the diagnostics it logged, in a cycle.
ReaderIo(ev, rid) ==
    LET Mine(e) == /\ <<e.bind, e.kind>> = rid
                   /\ e.op \in {"open", "seek", "gather", "emit", "log_error"}
    IN SelectSeq(ev, Mine)

ReaderRan(ev, rid, op) ==
    \E j \in 1..Len(ev) : ev[j].op = op /\ <<ev[j].bind, ev[j].kind>> = rid

\* C1: once a reader's open has failed with errno 13 or 2, no later
\* run_single_cycle on it opens, seeks, reads, parses or logs: no step adds
\* such an event of that reader to a cycle's record.
C1_FailedReaderNeverReads ==
    [][\A rid \in permFailed :
          ReaderIo(events', rid) \in {ReaderIo(events, rid), <<>>}]_vars

\* A failed reader of the binding had run_single_cycle called in a later cycle.
W_C1 ==
    \E i \in 1..Len(gathers) :
       /\ Rid(gathers[i]) \in permFailed
       /\ ReaderRan(events, Rid(gathers[i]), "run")
       /\ ~ReaderRan(events, Rid(gathers[i]), "open")

\* C2: once a binding has been replaced or discarded, close() has been called
\* on each of its readers and none of its handles is open; this holds in every
\* state, so before any reader of a later binding opens.
C2_PriorBindingClosed ==
    \A b \in 1..bindSeq :
       (b < bindSeq \/ pid = NoPid) =>
          /\ \A i \in 1..Len(Kinds) : <<b, Kinds[i]>> \in closed
          /\ \A h \in openHandles : h.bind # b

\* In one cycle a binding with an open handle was closed and a reader of the
\* next binding opened its file.
W_C2 ==
    /\ bindSeq >= 2
    /\ \E j \in 1..Len(events) :
          events[j].op = "close" /\ events[j].bind = bindSeq - 1 /\ events[j].res = 1
    /\ \E h \in openHandles : h.bind = bindSeq

\* C3: between cycles every open handle is the file of a reader of the
\* current binding and was opened for the bound process id; with no bound
\* process id no handle is open.
C3_HandlesBelongToBinding ==
    pc = "idle" =>
       /\ \A h \in openHandles :
             /\ pid # NoPid
             /\ h.pid = pid
             /\ h.bind = bindSeq
             /\ \E i \in 1..Len(gathers) : gathers[i].file = h
       /\ pid = NoPid => openHandles = {}

\* The monitor is unbound between cycles after a cycle that released a handle.
W_C3 ==
    /\ pc = "idle"
    /\ pid = NoPid
    /\ \E j \in 1..Len(events) : events[j].op = "close" /\ events[j].res = 1

\* C4: after the monitor is torn down no handle it opened is open.
C4_ShutdownClosesReaders ==
    pc = "stopped" => openHandles = {}

\* C5: a cycle whose liveness probe of the bound process id is denied keeps
\* the bound process id and the readers as they are, closes nothing and does
\* not ask the resolver.
C5_DeniedProbeKeepsBinding ==
    [][(CycleStarts /\ pid # NoPid /\ Kill(procs, pid) \notin {0, ESRCH}) =>
          /\ pid' = pid
          /\ gathers' = gathers
          /\ bindSeq' = bindSeq
          /\ closed' = closed
          /\ openHandles' = openHandles
          /\ ~HasEvent(events', "close")
          /\ ~HasEvent(events', "select")]_vars

\* A cycle started with a denied probe of a bound process that has open files.
W_C5 ==
    /\ pc = "run"
    /\ pid # NoPid
    /\ events # <<>>
    /\ events[1].op = "is_running"
    /\ events[1].res = EPERM
    /\ openHandles # {}

\* C6: a cycle that finds the bound process id gone closes every reader of
\* the binding and drops them; when the resolver then finds nothing the
\* monitor is unbound with no readers, and an unbound monitor emits nothing.
C6_DeadProcessUnbinds ==
    /\ [][(CycleStarts /\ pid # NoPid /\ Kill(procs, pid) = ESRCH) =>
             /\ \A i \in 1..Len(gathers) :
                   /\ Rid(gathers[i]) \in closed'
                   /\ gathers[i].file \notin openHandles'
                   /\ \A k \in 1..Len(gathers') : Rid(gathers'[k]) # Rid(gathers[i])
             /\ \A j \in 1..Len(events') :
                   (events'[j].op = "select" /\ events'[j].pid = NoPid) =>
                      (pid' = NoPid /\ gathers' = <<>>)]_vars
    /\ [](pid = NoPid => (gathers = <<>> /\ ~HasEvent(events, "emit")))

\* A cycle found the bound process gone, released a handle, found no candidate
\* and has ended unbound.
W_C6 ==
    /\ pc = "idle"
    /\ pid = NoPid
    /\ events # <<>>
    /\ events[1].op = "is_running"
    /\ events[1].res = ESRCH
    /\ \E j \in 1..Len(events) : events[j].op = "close" /\ events[j].res = 1
    /\ \E j \in 1..Len(events) : events[j].op = "select" /\ events[j].pid = NoPid

ExplicitTarget == IF target_pid = DollarDollar THEN SelfPid ELSE StrToInt(target_pid)

\* C7: in explicit-id mode the resolver yields the target id exactly when the
\* existence probe on it succeeds; otherwise it yields none, nothing is raised
\* or logged and the monitor stays unbound.
C7_ExplicitIdResolution ==
    [][(CycleStarts /\ commandline_matcher = NoStr /\ HasEvent(events', "select")) =>
          /\ Kill(procs, ExplicitTarget) = 0 => pid' = ExplicitTarget
          /\ Kill(procs, ExplicitTarget) # 0 => (pid' = NoPid /\ gathers' = <<>>)
          /\ \A j \in 1..Len(events') :
                events'[j].op = "select" =>
                   events'[j].pid = (IF Kill(procs, ExplicitTarget) = 0
                                     THEN ExplicitTarget ELSE NoPid)
          /\ ~raised'
          /\ ~HasEvent(events', "log_error")]_vars

\* In explicit-id mode the resolver was asked while the probe of the target
\* is denied, and found nothing.
W_C7 ==
    /\ pc = "run"
    /\ commandline_matcher = NoStr
    /\ target_pid = <<"1">>
    /\ Kill(procs, 1) = EPERM
    /\ pid = NoPid
    /\ \E j \in 1..Len(events) : events[j].op = "select" /\ events[j].pid = NoPid

Matching(table, matcher) == {i \in 1..Len(table) : Search(matcher, table[i].cmd)}

\* The pid of the first entry, in table order, whose command line matches.
FirstMatch(table, matcher) ==
    IF Matching(table, matcher) = {} THEN NoPid
    ELSE table[CHOOSE i \in Matching(table, matcher) :
                  \A k \in Matching(table, matcher) : i <= k].pid

\* C8: in pattern mode the resolver returns the pid of the first entry of the
\* table whose command line matches, none when no entry matches, and the same
\* result when called again on the same table.
C8_FirstMatchInTableOrder ==
    /\ [](selCalls > 0 => selResult = FirstMatch(psTable, psMatcher))
    /\ [][selCalls > 0 => selResult' = selResult]_vars

\* The resolver was called twice on a table whose first matching entry is
\* neither its first nor its only matching entry.
W_C8 ==
    /\ selCalls >= 2
    /\ Cardinality(Matching(psTable, psMatcher)) >= 2
    /\ 1 \notin Matching(psTable, psMatcher)
    /\ selResult # NoPid

ExactlyOneTarget ==
    (commandline_matcher = NoStr) # (target_pid = NoStr)

C10_UnexpectedOpenErrorPropagates ==
    [][(pc = "run" /\ Len(events') > Len(events)
        /\ \E j \in (Len(events) + 1)..Len(events') :
              events'[j].op = "open" /\ events'[j].res \notin {0, EACCES, ENOENT}) =>
          /\ raised'
          /\ pc' = "idle"
          /\ gathers'[idx].failed = FALSE
          /\ gathers'[idx].file = NoFile
          /\ Rid(gathers'[idx]) \notin permFailed'
          /\ \A j \in (Len(events) + 1)..Len(events') : events'[j].op # "log_error"]_vars

\* A cycle has ended by raising after an open failed for want of a descriptor.
W_C10 ==
    /\ pc = "idle"
    /\ raised
    /\ events # <<>>
    /\ events[Len(events)].op = "open"
    /\ events[Len(events)].res = EMFILE

\* Number of times x occurs in the sequence q.
Count(q, x) == Cardinality({j \in 1..Len(q) : q[j] = x})

\* The calls a step adds to the record of the cycle: all of them when the
\* step starts a cycle.
NewEvents ==
    IF CycleStarts THEN events'
    ELSE SubSeq(events', Len(events) + 1, Len(events'))

\* C11: a reader has logged exactly one error message if its open failed with
\* errno 13 or 2 and none otherwise, however many cycles it has run.
C11_OneMessagePerFailedReader ==
    \A b \in 1..bindSeq : \A i \in 1..Len(Kinds) :
       Count(errorLog, <<b, Kinds[i]>>) =
          (IF <<b, Kinds[i]>> \in permFailed THEN 1 ELSE 0)

\* A reader that logged its error in an earlier cycle has run again.
W_C11 ==
    \E i \in 1..Len(gathers) :
       /\ Count(errorLog, Rid(gathers[i])) = 1
       /\ ReaderRan(events, Rid(gathers[i]), "run")
       /\ ~ReaderRan(events, Rid(gathers[i]), "log_error")

\* C13: a reader that holds an open file keeps that file and opens nothing as
\* long as it is in the binding, and each of its reads follows a seek to 0.
C13_OpenHandleIsReused ==
    [][\A i \in 1..Len(gathers) :
          (/\ gathers[i].file # NoFile
           /\ i <= Len(gathers')
           /\ Rid(gathers'[i]) = Rid(gathers[i])) =>
             /\ gathers'[i].file = gathers[i].file
             /\ \A j \in 1..Len(NewEvents) :
                   <<NewEvents[j].bind, NewEvents[j].kind>> = Rid(gathers[i]) =>
                      /\ NewEvents[j].op # "open"
                      /\ NewEvents[j].op = "gather" =>
                            (j > 1 /\ NewEvents[j - 1].op = "seek"
                             /\ NewEvents[j - 1].res = 0
                             /\ NewEvents[j - 1].kind = NewEvents[j].kind)]_vars

\* A reader read its file in a cycle in which it did not open it.
W_C13 ==
    \E i \in 1..Len(gathers) :
       /\ gathers[i].file # NoFile
       /\ ReaderRan(events, Rid(gathers[i]), "seek")
       /\ ReaderRan(events, Rid(gathers[i]), "emit")
       /\ ~ReaderRan(events, Rid(gathers[i]), "open")

\* C15: an unbound monitor has no reader; a bound one has exactly a stat, a
\* status and an io reader, each built for the bound process id, and never a
\* netstat or sockstat reader.
C15_BindingShape ==
    /\ pid = NoPid => gathers = <<>>
    /\ pid # NoPid =>
          /\ Len(gathers) = 3
          /\ gathers[1].kind = "stat"
          /\ gathers[2].kind = "status"
          /\ gathers[3].kind = "io"
          /\ \A i \in 1..Len(gathers) : gathers[i].pid = pid
    /\ \A i \in 1..Len(gathers) : gathers[i].kind \notin {"netstat", "sockstat"}

\* The monitor is bound, between cycles, to its second binding.
W_C15 ==
    /\ pc = "idle"
    /\ pid # NoPid
    /\ bindSeq >= 2
    /\ Len(gathers) = 3

\* C16: every emitted sample has the monitor's id as its app field and a type
\* field exactly when print_sample was given a type; the id, and the id of
\* every reader, never differs from the configured one.
C16_SamplesCarryIdentity ==
    /\ [](\A j \in 1..Len(events) :
             events[j].op = "emit" =>
                /\ <<"app", monitor_id>> \in events[j].extra
                /\ \A kv \in events[j].extra : kv[1] \in {"app", "type"}
                /\ Cardinality(events[j].extra) = (IF events[j].tag = NoTag THEN 1 ELSE 2)
                /\ events[j].tag # NoTag => <<"type", events[j].tag[1]>> \in events[j].extra)
    /\ [](\A i \in 1..Len(gathers) : gathers[i].id = monitor_id)
    /\ [][monitor_id' = monitor_id]_vars

\* After a rebind a cycle emitted samples with and without a type.
W_C16 ==
    /\ bindSeq >= 2
    /\ \E j \in 1..Len(events) :
          events[j].op = "emit" /\ events[j].bind = bindSeq /\ events[j].tag = NoTag
    /\ \E j \in 1..Len(events) :
          events[j].op = "emit" /\ events[j].bind = bindSeq /\ events[j].tag # NoTag

\* C17: a cycle that starts unbound and whose resolver finds nothing changes
\* nothing but the record of the cycle: no reader, no handle, no close, no
\* message; every unbound cycle asks the resolver, and an unbound monitor
\* opens, emits and logs nothing.
C17_UnboundCycleIsNoOp ==
    /\ [][(CycleStarts /\ pid = NoPid
           /\ \E j \in 1..Len(events') :
                 events'[j].op = "select" /\ events'[j].pid = NoPid) =>
             /\ pid' = NoPid
             /\ gathers' = <<>>
             /\ bindSeq' = bindSeq
             /\ openHandles' = openHandles
             /\ closed' = closed
             /\ errorLog' = errorLog
             /\ ~raised'
             /\ Len(events') = 1]_vars
    /\ [][(CycleStarts /\ pid = NoPid) => HasEvent(events', "select")]_vars
    /\ [](pid = NoPid =>
             \A j \in 1..Len(events) : events[j].op \notin {"run", "open", "emit", "log_error"})

\* An unbound cycle has ended without a candidate although a process exists.
W_C17 ==
    /\ pc = "idle"
    /\ pid = NoPid
    /\ Len(events) = 1
    /\ events[1].op = "select"
    /\ events[1].pid = NoPid
    /\ \E p \in OtherPids : procs[p].alive

\* The last call made on the lone reader.
LastOp == readerOps[Len(readerOps)]

\* C12: no call of run_single_cycle or close on a reader turns its failed flag
\* from true to false.
C12_FailedFlagMonotone ==
    [][reader.failed => reader'.failed]_vars

\* C14: close leaves the reader without a file, releases the handle it held
\* and nothing else, whatever the reader's state, and a close that follows a
\* close changes nothing.
C14_CloseSafeAndIdempotent ==
    /\ [](readerOps # <<>> /\ LastOp.op = "close" =>
             /\ reader.file = NoFile
             /\ readerHandles = {}
             /\ ~LastOp.raised
             /\ LastOp.ev[1].res = (IF LastOp.before.file # NoFile THEN 1 ELSE 0)
             /\ Close(reader).r = reader
             /\ Close(reader).released = {})
    /\ [][(readerOps # <<>> /\ LastOp.op = "close"
           /\ Len(readerOps') > Len(readerOps)
           /\ readerOps'[Len(readerOps')].op = "close") =>
             (reader' = reader /\ readerHandles' = readerHandles)]_vars

\* close has been called on an open reader and then once more.
W_C14 ==
    /\ Len(readerOps) >= 3
    /\ readerOps[Len(readerOps) - 2].op = "run"
    /\ readerOps[Len(readerOps) - 1].op = "close"
    /\ readerOps[Len(readerOps) - 1].before.file # NoFile
    /\ LastOp.op = "close"

\* C19 as stated: the conversions give the integer nearest to
\* ticks * 100 / hz and to ticks * 1000 / hz.
C19_ConversionRounds ==
    conversions > 0 =>
       /\ time_cs = Round(jiffies * 100, jiffies_per_sec)
       /\ time_ms = Round(jiffies * 1000, jiffies_per_sec)

\* C19: the conversions give the integer part of ticks * 100 / hz and of
\* ticks * 1000 / hz: the largest integer not above the quotient.
C19_ConversionTruncates ==
    conversions > 0 =>
       /\ time_cs * jiffies_per_sec <= jiffies * 100
       /\ jiffies * 100 < (time_cs + 1) * jiffies_per_sec
       /\ time_ms * jiffies_per_sec <= jiffies * 1000
       /\ jiffies * 1000 < (time_ms + 1) * jiffies_per_sec

\* A tick count whose quotient has a fraction of a half or more was converted.
W_C19 ==
    /\ conversions > 0
    /\ 2 * (jiffies * 100 - time_cs * jiffies_per_sec) >= jiffies_per_sec
    /\ time_cs # Round(jiffies * 100, jiffies_per_sec)

\* C20: every app.uptime value emitted for a process that started no later
\* than the uptime at the read is at least 0.
C20_UptimeNonNegative ==
    (uptime_samples > 0 /\ starttime <= uptime_cs) => process_uptime >= 0

\* C18: __select_process never waits for a ps that cannot finish: it is never
\* in wait() while ps is blocked writing a line into the full pipe.
C18_ResolutionNeverBlocks ==
    ~(/\ sel_pc = "wait"
      /\ ~ps_exited
      /\ ps_out # <<>>
      /\ Len(ps_pipe) = PipeCap)

\* C21: a stat reader reads /proc/uptime at most once; once the boot time is
\* set no step reads the file or changes the value, and every later sample
\* is computed from that value.
C21_BootTimeComputedOnce ==
    /\ [](uptime_reads <= 1)
    /\ [](uptime_samples > 0 => (boot_time_ms # NoBootTime /\ uptime_reads = 1))
    /\ [][boot_time_ms # NoBootTime =>
             /\ boot_time_ms' = boot_time_ms
             /\ uptime_reads' = uptime_reads
             /\ uptime_samples' > uptime_samples =>
                   process_uptime' = WallMs(wall_cs) - boot_time_ms
                                     - CalculateTimeMs(starttime, UptimeClockTicks)]_vars

\* A second sample was gathered at a time when reading /proc/uptime again
\* would have given another boot time.
W_C21 ==
    /\ uptime_samples >= 2
    /\ uptime_reads = 1
    /\ boot_time_ms # WallMs(wall_cs) - UptimeFileMs(uptime_cs)

\* The name, value and type of each sample of a sequence of emit events.
Samples(ev) == [j \in 1..Len(ev) |-> <<ev[j].name, ev[j].res, ev[j].tag>>]

\* The type the status reader's documentation gives each field name.
StatusType(key) ==
    CASE key = KeyVmSize -> <<"vmsize">>
      [] key = KeyVmPeak -> <<"peak_vmsize">>
      [] key = KeyVmRSS -> <<"resident">>
      [] key = KeyVmHWM -> <<"peak_resident">>
      [] OTHER -> NoTag

RECURSIVE ExpectedStatus(_)
\* The samples C22 asks for, from what the lines were written from.
ExpectedStatus(src) ==
    IF src = <<>> THEN <<>>
    ELSE (IF StatusType(Head(src).key) # NoTag /\ Head(src).num >= 0
          THEN <<<<"app.mem.bytes", Head(src).num * 1024, StatusType(Head(src).key)>>>>
          ELSE <<>>) \o ExpectedStatus(Tail(src))

\* C22: the status reader emits, in line order, one app.mem.bytes sample for
\* each line whose field name is VmSize, VmPeak, VmRSS or VmHWM and is
\* followed by an integer, with 1024 times that integer and the type of the
\* field; other lines give no sample, and nothing is raised or logged.
C22_StatusSamples ==
    (parse_done /\ parse_kind = "status") =>
       /\ ~parse_raised
       /\ Samples(parse_out) = ExpectedStatus(parse_src)
       /\ \A j \in 1..Len(parse_out) : parse_out[j].op = "emit"

\* A text with a line that gives a sample and a line that gives none.
W_C22 ==
    /\ parse_done
    /\ parse_kind = "status"
    /\ Len(parse_src) = 2
    /\ Len(parse_out) = 1
    /\ parse_out[1].res = 12 * 1024

\* The metric and type C23 gives each io field name.
IoMetric(key) ==
    CASE key = KeyRchar -> <<"app.disk.bytes", <<"read">>>>
      [] key = KeySyscr -> <<"app.disk.requests", <<"read">>>>
      [] key = KeyWchar -> <<"app.disk.bytes", <<"write">>>>
      [] key = KeySyscw -> <<"app.disk.requests", <<"write">>>>
      [] OTHER -> <<"", NoTag>>

RECURSIVE ExpectedIo(_)
\* The samples C23 asks for, from what the lines were written from.
ExpectedIo(src) ==
    IF src = <<>> THEN <<>>
    ELSE (IF IoMetric(Head(src).key)[2] # NoTag
          THEN <<<<IoMetric(Head(src).key)[1], Head(src).num, IoMetric(Head(src).key)[2]>>>>
          ELSE <<>>) \o ExpectedIo(Tail(src))

\* C23: the io reader emits one sample for each line keyed rchar, syscr, wchar
\* or syscw, with the line's value, and ignores every other line, an empty
\* one included, without raising.
C23_IoSamples ==
    (parse_done /\ parse_kind = "io") =>
       /\ ~parse_raised
       /\ Samples(parse_out) = ExpectedIo(parse_src)

\* The last cycle ended in the resolver because ps could not be started.
EnumerationFailed ==
    /\ pc = "idle"
    /\ events # <<>>
    /\ events[Len(events)].op = "select_raised"

C25_OwnSourceAddress ==
    \A m \in ApacheMonitors :
       apache_fetched[m] # NoAddress =>
          apache_fetched[m] = ConfigGet(apache_config[m], "source_address",
                                        DefaultSourceAddress)

\* C26: a cycle that began when the process instance of the binding had
\* ended, and that ran to its end, has closed every reader of that binding,
\* released its handles and dropped its readers.
C26_DeadInstanceIsUnbound ==
    (pc = "idle" /\ ~raised /\ staleBind # 0) =>
       /\ \A i \in 1..Len(Kinds) : <<staleBind, Kinds[i]>> \in closed
       /\ \A h \in openHandles : h.bind # staleBind
       /\ \A i \in 1..Len(gathers) : gathers[i].bind # staleBind

\* C27: an open that fails because the process has exited (errno 2) logs no
\* error message and does not mark its reader failed.
C27_ExitLogsAndFailsNothing ==
    \A j \in 1..Len(events) :
       (events[j].op = "open" /\ events[j].res = ENOENT) =>
          /\ ~ReaderRan(events, <<events[j].bind, events[j].kind>>, "log_error")
          /\ \A i \in 1..Len(gathers) :
                Rid(gathers[i]) = <<events[j].bind, events[j].kind>> => ~gathers[i].failed

\* The process id p satisfies the configured target: its command line
\* matches the pattern, or it is the explicit id and the agent may signal it.
Satisfies(p) ==
    /\ p \in Pids
    /\ procs[p].alive
    /\ IF commandline_matcher # NoStr
       THEN Search(commandline_matcher, procs[p].cmd)
       ELSE p = ExplicitTarget /\ Kill(procs, p) = 0

TargetExists == \E p \in Pids : Satisfies(p)

Rids(g) == [j \in 1..Len(g) |-> Rid(g[j])]

\* The calls in ev made on the reader with identity rid.
CallsOn(ev, rid) == {j \in 1..Len(ev) : <<ev[j].bind, ev[j].kind>> = rid}

\* C29: when a reader raises, the cycle ends at that reader: no later reader of
\* the binding is run in the cycle, the bound pid, the binding and the reader
\* instances stay, every open handle stays open and held by its reader, and a
\* reader whose open raised is left unopened and not failed; an unopened reader
\* that is not failed attempts the open whenever it is run.
C29_RaisingReaderAbortsCycle ==
    /\ [][(pc = "run" /\ raised') =>
            /\ pc' = "idle"
            /\ pid' = pid /\ bindSeq' = bindSeq
            /\ Rids(gathers') = Rids(gathers)
            /\ \A k \in 1..Len(gathers) : k # idx => gathers'[k] = gathers[k]
            /\ \A k \in (idx + 1)..Len(gathers) : CallsOn(events', Rid(gathers[k])) = {}
            /\ openHandles \subseteq openHandles'
            /\ gathers[idx].file # NoFile => gathers'[idx].file = gathers[idx].file
            /\ closed' = closed
            /\ events'[Len(events')].op = "open" =>
                  /\ gathers'[idx].file = NoFile
                  /\ ~gathers'[idx].failed
                  /\ Rid(gathers'[idx]) \notin permFailed']_vars
    /\ [][(pc = "run" /\ events' # events
           /\ gathers[idx].file = NoFile /\ ~gathers[idx].failed) =>
            \E j \in (Len(events) + 1)..Len(events') :
               /\ events'[j].op = "open"
               /\ <<events'[j].bind, events'[j].kind>> = Rid(gathers[idx])]_vars

\* The second reader's open raised after the first reader opened its file and
\* emitted: the cycle is over, the first handle is open, the third reader has
\* not been called.
W_C29 ==
    /\ pc = "idle"
    /\ raised
    /\ Len(gathers) = Len(Kinds)
    /\ events[Len(events)].op = "open"
    /\ events[Len(events)].kind = "status"
    /\ events[Len(events)].res = EMFILE
    /\ gathers[1].file # NoFile
    /\ gathers[1].file \in openHandles
    /\ gathers[2].file = NoFile
    /\ ~gathers[2].failed
    /\ CallsOn(events, Rid(gathers[1])) # {}
    /\ CallsOn(events, Rid(gathers[3])) = {}

\* A reader's read raised while it held an open handle.
W_C29_ReadRaised ==
    /\ pc = "idle"
    /\ raised
    /\ events # <<>>
    /\ events[Len(events)].op = "gather"
    /\ events[Len(events)].res = ESRCH
    /\ \E k \in 1..Len(gathers) :
          Rid(gathers[k]) = <<events[Len(events)].bind, events[Len(events)].kind>>
          /\ gathers[k].file \in openHandles

\* C30: a reader close() was called on is not in the binding any more, holds
\* no open handle, and is never called again: no later call of
\* run_single_cycle, open, seek, gather_sample or print_sample is made on it.
C30_ClosedReaderNeverRuns ==
    /\ [](\A i \in 1..Len(gathers) : Rid(gathers[i]) \notin closed)
    /\ [](\A h \in openHandles : <<h.bind, h.kind>> \notin closed)
    /\ [][\A j \in 1..Len(NewEvents) :
            NewEvents[j].op # "close" =>
               <<NewEvents[j].bind, NewEvents[j].kind>> \notin closed']_vars

\* The readers of the first binding were run and then closed, one of them
\* after its open had been refused, and a reader of the second binding has
\* emitted.
W_C30 ==
    /\ pc = "idle"
    /\ bindSeq = 2
    /\ <<1, "stat">> \in closed
    /\ <<1, "io">> \in closed \cap permFailed
    /\ \E j \in 1..Len(events) : events[j].op = "emit" /\ events[j].bind = 2

====
